---- MODULE Spec2Model ----
(***************************************************************************)
(* target-postgres: the driver loop (persist_lines, flush_records, main)   *)
(* of target_postgres/__init__.py and the staging merge (DbSync.load_csv,  *)
(* DbSync.sync_table) of target_postgres/db_sync.py, as a state machine.   *)
(*                                                                         *)
(* One action reads one input line and runs the whole handler for it,      *)
(* flushes included.  The database is part of the state: the target        *)
(* schema, the permanent tables with their primary key and rows.  A merge  *)
(* runs in one transaction (psycopg2's "with connection"), so it either    *)
(* commits all five statements or leaves the table as it was.              *)
(***************************************************************************)
EXTENDS Integers, Sequences, FiniteSets, TLC

\* ----------------------------------------------------------------- bounds

\* Lines read from stdin in one run.
MaxLines == 4

\* config['batch_size'] ranges over 1..MaxBatchSize.
MaxBatchSize == 2

\* Lines read from stdin in a run that is repeated.
MaxRerunLines == 5

\* ----------------------------------------------------------------- values

\* Python None, which json.loads also gives for JSON null.
None == "None"

\* SQL NULL, what COPY ... FORMAT CSV reads from an empty unquoted field.
NULL == "NULL"

Streams == {"a", "b"}

\* The stream names of all runs: "A" is another stream with the table of "a".
StreamNames == Streams \cup {"A"}

\* The property names of the declared schemas, in sorted order.
ColumnOrder == <<"id", "sub", "v">>

\* ------------------------------------------------------------ the projector

\* column_type: 'in' on the type list, and the format when there is one.
column_type(schema_property) ==
  IF "object" \in schema_property.type \/ "array" \in schema_property.type THEN "JSONB"
  ELSE IF "format" \in DOMAIN schema_property /\ schema_property.format = "date-time"
  THEN "timestamp"
  ELSE IF "number" \in schema_property.type THEN "decimal"
  ELSE IF "integer" \in schema_property.type THEN "bigint"
  ELSE IF "boolean" \in schema_property.type THEN "bool"
  ELSE "varchar"

\* most_general_type: string with anything is string, number > integer >
\* boolean, object > array, 'null' does not count, and names that do not
\* generalise to each other, or are not known, give string.
most_general_type(types) ==
  IF "string" \in types \/ types \ {"null"} = {} THEN "string"
  ELSE IF types \ {"null"} \subseteq {"number", "integer", "boolean"}
  THEN (IF "number" \in types THEN "number"
        ELSE IF "integer" \in types THEN "integer"
        ELSE "boolean")
  ELSE IF types \ {"null"} \subseteq {"object", "array"}
  THEN (IF "object" \in types THEN "object" ELSE "array")
  ELSE "string"

\* inflection.underscore plus the replacements, on the names used here.
inflect_column_name(name) ==
  CASE name = "Id" -> "id"
    [] OTHER -> name

\* str.lower, on the names used here.
lower(name) ==
  CASE name = "A" -> "a"
    [] OTHER -> name

RECURSIVE SeqToSet(_)
SeqToSet(s) == IF s = <<>> THEN {} ELSE {Head(s)} \cup SeqToSet(Tail(s))

flatten_schema_unsorted(schema) ==
  SelectSeq(<<"v", "sub", "id">>, LAMBDA c : \E p \in schema.properties : inflect_column_name(p) = c)

\* flatten_schema: the sorted column names of a schema without nested objects.
flatten_schema(schema) ==
  SelectSeq(ColumnOrder, LAMBDA c : \E p \in schema.properties : inflect_column_name(p) = c)

\* Lines 60-64 of flatten_schema: two properties with one column name raise
\* ValueError.
flatten_schema_raises(schema) ==
  \E p, q \in schema.properties : p # q /\ inflect_column_name(p) = inflect_column_name(q)

\* flatten_record on a flat record: every key inflected, scalar values as-is.
flatten_record(d) ==
  [c \in {inflect_column_name(k) : k \in DOMAIN d} |->
     d[CHOOSE k \in DOMAIN d : inflect_column_name(k) = c]]

primary_column_names_raw(key_properties) ==
  key_properties

primary_column_names(key_properties) ==
  [i \in 1..Len(key_properties) |-> inflect_column_name(key_properties[i])]

RECURSIVE Join(_, _)
\* sep.join(parts) for a sequence of strings.
Join(sep, parts) ==
  IF Len(parts) = 0 THEN ""
  ELSE IF Len(parts) = 1 THEN parts[1]
  ELSE parts[1] \o sep \o Join(sep, Tail(parts))

\* A key property as record_primary_key_string names it before the
\* inflection: a blank is an underscore, and a capital after it is set off
\* by one more ('Test Primary' is the column test__primary).
safe_column_name(name) ==
  CASE name = "Test Primary" -> "test__primary"
    [] name = "Test_secondary" -> "test_secondary"
    [] OTHER -> name

\* DbSync.record_primary_key_string: None without key properties or when a
\* key value is missing, else the comma-joined str() of the key values.
record_primary_key_string(key_properties, record) ==
  LET flatten == flatten_record(record)
      names == primary_column_names(
                 [i \in 1..Len(key_properties) |-> safe_column_name(key_properties[i])])
  IN IF Len(key_properties) = 0 THEN None
     ELSE IF \E i \in 1..Len(names) : names[i] \notin DOMAIN flatten THEN None
     ELSE Join(",", [i \in 1..Len(names) |-> flatten[names[i]]])

\* DbSync.record_to_csv_row: one field per projected column, the value when
\* present and truthy, else the empty field.
record_to_csv_row(schema, record) ==
  LET flatten == flatten_record(record)
      cols == flatten_schema(schema)
  IN [i \in 1..Len(cols) |->
        IF cols[i] \in DOMAIN flatten /\ flatten[cols[i]] # "" THEN flatten[cols[i]] ELSE ""]

\* Draft4Validator(schema).validate(record): the 'required' keyword.
validate(schema, record) ==
  schema.required \subseteq DOMAIN record

\* ------------------------------------------------------------- the database

\* DbSync.table_name for the permanent table, as the server resolves it: an
\* unquoted identifier is folded to lower case.
table_name(stream) == lower(stream)

\* DbSync.column_names: the projected columns in order.
column_names(msg) == flatten_schema(msg.schema)

create_table_query_keyless_temp(msg, is_temporary) ==
  [temporary |-> is_temporary,
   columns |-> flatten_schema(msg.schema),
   primary_key |-> IF Len(msg.key_properties) > 0 /\ ~ is_temporary
                   THEN primary_column_names(msg.key_properties) ELSE <<>>]

\* DbSync.create_table_query: the column list and, when the stream has key
\* properties, a PRIMARY KEY clause; is_temporary only changes the table name.
create_table_query(msg, is_temporary) ==
  [temporary |-> is_temporary,
   columns |-> column_names(msg),
   primary_key |-> IF Len(msg.key_properties) > 0
                   THEN primary_column_names(msg.key_properties) ELSE <<>>]

\* One CSV line as COPY reads it: an empty field is NULL.
CopyRow(cols, fields) ==
  [c \in SeqToSet(cols) |->
     LET i == CHOOSE j \in 1..Len(cols) : cols[j] = c
     IN IF fields[i] = "" THEN NULL ELSE fields[i]]

\* s.k1 = t.k1 AND ...: SQL equality, which never holds for NULL.
primary_key_condition(names, s, t) ==
  \A i \in 1..Len(names) : s[names[i]] # NULL /\ t[names[i]] # NULL /\ s[names[i]] = t[names[i]]

\* A PRIMARY KEY constraint on a sequence of rows: no NULL key, no two rows
\* with the same key.
PrimaryKeyViolated(pk, rows) ==
  /\ Len(pk) > 0
  /\ \/ \E i \in 1..Len(rows) : \E k \in 1..Len(pk) : rows[i][pk[k]] = NULL
     \/ \E i, j \in 1..Len(rows) : i < j /\ primary_key_condition(pk, rows[i], rows[j])

\* SET c = s.c for the columns of the staged row s; the other columns of
\* the target row t keep their value.
SetColumns(t, s) ==
  [c \in DOMAIN t \cup DOMAIN s |-> IF c \in DOMAIN s THEN s[c] ELSE t[c]]

update_from_temp_table_none(names, target, staged) ==
  target

\* UPDATE t SET c = s.c, ... FROM temp s WHERE s.k = t.k: every target row
\* with a staged row of the same key becomes that staged row.
update_from_temp_table(names, target, staged) ==
  [n \in 1..Len(target) |->
     IF \E i \in 1..Len(staged) : primary_key_condition(names, staged[i], target[n])
     THEN SetColumns(target[n],
                     staged[CHOOSE i \in 1..Len(staged) :
                              primary_key_condition(names, staged[i], target[n])])
     ELSE target[n]]

insert_from_temp_table_all(names, target, staged) ==
  staged

\* INSERT INTO t (SELECT s.* FROM temp s LEFT OUTER JOIN t ON s.k = t.k
\* WHERE t.k is null): the staged rows no target row matches.
insert_from_temp_table(names, target, staged) ==
  SelectSeq(staged, LAMBDA s : ~ \E n \in 1..Len(target) :
                                   primary_key_condition(names, s, target[n]))

\* INSERT INTO t (c1, ...): a column of the table that is not listed is NULL.
WithDefaults(columns, rows) ==
  [n \in 1..Len(rows) |->
     [c \in columns \cup DOMAIN rows[n] |-> IF c \in DOMAIN rows[n] THEN rows[n][c] ELSE NULL]]

\* cur.copy_expert: the file's lines become the rows of the staging table.
copy_expert(cols, file) ==
  [i \in 1..Len(file) |-> CopyRow(cols, file[i])]

\* The first of the five statements that raises (0: none).  fault is the
\* statement at which the server or the connection fails.
first_failure(fault, copy_ok, update_ok, insert_ok) ==
  IF fault = 1 THEN 1
  ELSE IF fault = 2 \/ ~ copy_ok THEN 2
  ELSE IF fault = 3 \/ ~ update_ok THEN 3
  ELSE IF fault = 4 \/ ~ insert_ok THEN 4
  ELSE IF fault = 5 THEN 5
  ELSE 0

StatementOrder_swapped ==
  <<"CREATE TEMP TABLE", "COPY", "INSERT", "UPDATE", "DROP TABLE">>

\* Lines 143-157 of load_csv: the statements of a merge, in the order the
\* cursor executes them.
StatementOrder ==
  <<"CREATE TEMP TABLE", "COPY", "UPDATE", "INSERT", "DROP TABLE">>

transaction_no_rollback(before, after, failed_at) ==
  [ok |-> failed_at = 0,
   rows |-> after,
   statements |-> SubSeq(StatementOrder, 1, IF failed_at = 0 THEN 5 ELSE failed_at)]

\* "with connection": commit when no statement raised, else roll back.  The
\* statements are those the cursor was given, the failing one last.
transaction(before, after, failed_at) ==
  [ok |-> failed_at = 0,
   rows |-> IF failed_at = 0 THEN after ELSE before,
   statements |-> SubSeq(StatementOrder, 1, IF failed_at = 0 THEN 5 ELSE failed_at)]

\* Lines 155-157 of load_csv, given the rows the UPDATE left and the rows
\* the INSERT selects.
load_csv_insert(names, temp_pk, table, staged, updated, inserted, fault) ==
  transaction(table.rows, updated \o WithDefaults(table.columns, inserted),
              first_failure(fault,
                            ~ PrimaryKeyViolated(temp_pk, staged),
                            \* "UPDATE ... WHERE " with no key column is not a
                            \* statement; an UPDATE that breaks the table's
                            \* PRIMARY KEY raises.
                            Len(names) > 0 /\ ~ PrimaryKeyViolated(table.primary_key, updated),
                            ~ PrimaryKeyViolated(table.primary_key,
                                                 updated \o WithDefaults(table.columns, inserted))))

\* Lines 153-157 of load_csv, given the staged rows.
load_csv_update(names, temp_pk, table, staged, updated, fault) ==
  load_csv_insert(names, temp_pk, table, staged, updated,
                  insert_from_temp_table(names, updated, staged), fault)

\* Lines 143-157 of load_csv, given the staged rows.
load_csv_staged(names, temp_pk, table, staged, fault) ==
  load_csv_update(names, temp_pk, table, staged,
                  update_from_temp_table(names, table.rows, staged), fault)

\* DbSync.load_csv on the permanent table `table` ([columns, primary_key,
\* rows]): CREATE TEMP TABLE, COPY, UPDATE, INSERT, DROP in one transaction.
\* The result is the committed rows, or the rows as they were and the
\* failing statement.
load_csv(msg, file, table, fault) ==
  load_csv_staged(primary_column_names(msg.key_properties),
                  create_table_query(msg, TRUE).primary_key,
                  table, copy_expert(column_names(msg), file), fault)

\* ---------------------------------------------------------------- the input

r_empty == [p \in {} |-> ""]
r_A1 == [id |-> "1", sub |-> "2,3", v |-> "x"]
r_B == [id |-> "1,2", sub |-> "3", v |-> "y"]
r_A2 == [id |-> "1", sub |-> "2,3", v |-> ""]
r_nokey == [sub |-> "3", v |-> "x"]

\* The record payloads of the RECORD messages of a stream.
Records(s) ==
  IF s = "a" THEN {r_empty, r_A1, r_B, r_A2, r_nokey} ELSE {r_A1, r_B}

Properties == {"id", "sub", "v"}

\* The SCHEMA messages of a stream.  Stream "a": a single key whose record
\* must carry it, a composite key, no key, a message without
\* 'key_properties', and one with two properties of one column name.
\* Stream "b": a single key.
SchemaMessages(s) ==
  IF s = "a"
  THEN {[type |-> "SCHEMA", stream |-> s, key_properties |-> <<"Id">>,
         schema |-> [properties |-> Properties, required |-> {"id"}]],
        [type |-> "SCHEMA", stream |-> s, key_properties |-> <<"id", "sub">>,
         schema |-> [properties |-> Properties, required |-> {}]],
        [type |-> "SCHEMA", stream |-> s, key_properties |-> <<>>,
         schema |-> [properties |-> Properties, required |-> {}]],
        [type |-> "SCHEMA", stream |-> s,
         schema |-> [properties |-> Properties, required |-> {}]],
        [type |-> "SCHEMA", stream |-> s, key_properties |-> <<"Id">>,
         schema |-> [properties |-> {"Id", "id", "v"}, required |-> {}]]}
  ELSE {[type |-> "SCHEMA", stream |-> s, key_properties |-> <<"Id">>,
         schema |-> [properties |-> Properties, required |-> {}]]}

StateValues == {None, "s1", "s2"}

\* The lines of stdin after json.loads; [unparsable |-> TRUE] is a line
\* json.loads rejects.
Lines ==
  UNION {SchemaMessages(s) : s \in Streams}
  \cup UNION {{[type |-> "RECORD", stream |-> s, record |-> r] : r \in Records(s)} : s \in Streams}
  \cup {[type |-> "STATE", value |-> v] : v \in StateValues}
  \cup {[type |-> "SCHEMA", key_properties |-> <<"Id">>,
         schema |-> [properties |-> Properties, required |-> {}]],
        [type |-> "RECORD", record |-> r_A1],
        [type |-> "ACTIVATE_VERSION"],
        [type |-> "BOGUS"],
        [value |-> "s1"],
        [unparsable |-> TRUE]}

\* ---------------------------------------------------------------- the state

VARIABLES
  pc,                  \* "reading", "draining", "done" or "aborted"
  error,               \* None, or the kind of the exception that ended the run
  batch_size,          \* config['batch_size']
  lines_read,          \* lines consumed from stdin
  state,               \* persist_lines: the pending checkpoint
  schemas,             \* persist_lines: stream -> SCHEMA message
  validators,          \* persist_lines: stream -> validated schema
  key_properties,      \* persist_lines: stream -> key properties
  stream_to_sync,      \* persist_lines: stream -> DbSync (its schema message)
  row_count,           \* persist_lines: stream -> rows in the open buffer
  row_count_keys,      \* insertion order of row_count, the order of .items()
  csv_files_to_load,   \* persist_lines: stream -> the CSV rows of the buffer
  temp_files,          \* the temporary files opened so far: [stream, holder]
  primary_key_exists,  \* persist_lines: stream -> fingerprints of the batch
  drained,             \* entries of row_count.items() the final loop has passed
  stdout,              \* the lines written to sys.stdout
  db_schemata,         \* whether the target schema exists
  db_tables,           \* table -> [columns, primary_key, rows]
  ddl,                 \* history: the DDL statements issued in this run
  loads,               \* history: the load_csv calls, in order
  accepted,            \* history: stream -> the CSV rows written, in order
  line,                \* history: the line read last
  last_state,          \* history: the value of the last STATE line, if any
  records_since,       \* history: RECORD lines handled since then (0: none,
                       \* 1: only empty ones, 2: one with a non-empty record)
  run,                 \* which invocation of main this is, 1 or 2
  input,               \* history: the lines the first invocation read
  first_run,           \* history: how the first invocation ended
  applied              \* a function of db_sync.py applied on its own: [fn, arg, result]

vars ==
  <<pc, error, batch_size, lines_read, state, schemas, validators, key_properties,
    stream_to_sync, row_count, row_count_keys, csv_files_to_load, temp_files,
    primary_key_exists, drained, stdout, db_schemata, db_tables, ddl, loads, accepted, line,
    last_state, records_since, run, input, first_run, applied>>

EmptyMap == [s \in {} |-> 0]

\* d[k] = v on a Python dict.
Put(d, k, v) == [x \in DOMAIN d \cup {k} |-> IF x = k THEN v ELSE d[x]]

\* Before the first line, and before the first STATE line.
NoLine == [none |-> TRUE]
NoState == "no STATE"
NoRun == [none |-> TRUE]
NoCall == [fn |-> "none"]

\* The locals of persist_lines and the histories at the start of a run.
InitLocals ==
  /\ pc = "reading"
  /\ error = None
  /\ batch_size \in 1..MaxBatchSize
  /\ lines_read = 0
  /\ state = None
  /\ schemas = EmptyMap
  /\ validators = EmptyMap
  /\ key_properties = EmptyMap
  /\ stream_to_sync = EmptyMap
  /\ row_count = EmptyMap
  /\ row_count_keys = <<>>
  /\ csv_files_to_load = EmptyMap
  /\ temp_files = <<>>
  /\ primary_key_exists = EmptyMap
  /\ drained = 0
  /\ stdout = <<>>
  /\ ddl = <<>>
  /\ loads = <<>>
  /\ accepted = [s \in StreamNames |-> <<>>]
  /\ line = NoLine
  /\ last_state = NoState
  /\ records_since = 0
  /\ run = 1
  /\ input = <<>>
  /\ first_run = NoRun
  /\ applied = NoCall

\* A run against a database without the target schema.
Init ==
  /\ InitLocals
  /\ db_schemata = FALSE
  /\ db_tables = EmptyMap

\* --------------------------------------------------------------- the driver

\* What can go wrong in the database during one handler: nothing, or the
\* load_csv call at `site` (1: line 99, 2: line 108) fails at statement `step`.
NoFault == [site |-> 0, step |-> 0]

Faults == {NoFault} \cup {[site |-> c, step |-> k] : c \in 1..2, k \in 1..5}

FaultAt(fault, site) == IF fault.site = site THEN fault.step ELSE 0

\* new_csv_file_entry: a new temporary file, held by the entry that is put
\* into csv_files_to_load for the stream.
new_csv_file_entry(files, stream) ==
  Append(files, [stream |-> stream, holder |-> "csv_files_to_load"])

\* Line 151: detach() takes the binary file out of the stream's entry; the
\* local csv_file of flush_records holds it from then on.
detach(files, stream) ==
  [i \in 1..Len(files) |->
     IF files[i].stream = stream /\ files[i].holder = "csv_files_to_load"
     THEN [files[i] EXCEPT !.holder = "csv_file"]
     ELSE files[i]]

flush_returns_holding(files) ==
  files

\* flush_records returns: its local csv_file is dropped, and the file that
\* nothing else holds is closed with it.
flush_returns(files) ==
  [i \in 1..Len(files) |->
     IF files[i].holder = "csv_file" THEN [files[i] EXCEPT !.holder = None] ELSE files[i]]

\* The process ends, by an exception that leaves main or after emit_state:
\* every file it still has open is closed.
process_exit(files) ==
  [i \in 1..Len(files) |-> [files[i] EXCEPT !.holder = None]]

\* The objects a flush changes, and the exception it may raise.
Locals ==
  [row_count |-> row_count,
   csv_files_to_load |-> csv_files_to_load,
   temp_files |-> temp_files,
   primary_key_exists |-> primary_key_exists,
   db_tables |-> db_tables,
   loads |-> loads,
   accepted |-> accepted,
   error |-> None]

\* The outcome of a load_csv call, recorded in `loads`.
loaded(m, stream, file, count, cause, res) ==
  [m EXCEPT !.db_tables[table_name(stream)].rows = res.rows,
            !.loads = Append(@, [stream |-> stream, file |-> file, count |-> count,
                                 cause |-> cause, ok |-> res.ok,
                                 statements |-> res.statements]),
            !.error = IF res.ok THEN None ELSE "database"]

\* sync.load_csv(file, count) from a flush or from the final loop.
Load(m, stream, sync, file, count, cause, fault) ==
  loaded(m, stream, file, count, cause,
         load_csv(sync, file, m.db_tables[table_name(stream)], fault))

reset_buffer_count_only(m, stream) ==
  IF m.error # None THEN m
  ELSE [m EXCEPT !.row_count[stream] = 0,
                 !.primary_key_exists[stream] = {},
                 !.temp_files = flush_returns(new_csv_file_entry(@, stream))]

\* Lines 153-155 of flush_records, which an exception of load_csv skips.
reset_buffer(m, stream) ==
  IF m.error # None THEN m
  ELSE [m EXCEPT !.row_count[stream] = 0,
                 !.primary_key_exists[stream] = {},
                 !.csv_files_to_load[stream] = <<>>,
                 !.temp_files = flush_returns(new_csv_file_entry(@, stream))]

\* flush_records: hand the buffer to load_csv, then reset the count, the
\* fingerprints and the buffer.
flush_records(m, stream, sync, cause, fault) ==
  reset_buffer(Load([m EXCEPT !.temp_files = detach(@, stream)], stream, sync,
                    m.csv_files_to_load[stream], m.row_count[stream], cause, fault),
               stream)

is_duplicate_any_key(primary_key_string, seen) ==
  primary_key_string # None

is_duplicate_never(primary_key_string, seen) ==
  FALSE

\* Line 98: the record's fingerprint is already in the batch.
is_duplicate(primary_key_string, seen) ==
  primary_key_string # None /\ primary_key_string \in seen

batch_full_late(count, size) ==
  count > size

\* Line 107: the batch is full.
batch_full(count, size) ==
  count >= size

\* Lines 96-97: the stream's fingerprint set is created on first use.
ensure_seen(m, stream) ==
  [m EXCEPT !.primary_key_exists = IF stream \in DOMAIN @ THEN @ ELSE Put(@, stream, {})]

\* Lines 98-99: a fingerprint already in the batch flushes the batch first.
flush_if_duplicate(m, stream, sync, primary_key_string, fault) ==
  IF is_duplicate(primary_key_string, m.primary_key_exists[stream])
  THEN flush_records(m, stream, sync, "duplicate", fault)
  ELSE m

\* Lines 101-105: write the row, count it, remember its fingerprint.
write_row(m, stream, row, primary_key_string) ==
  IF m.error # None THEN m
  ELSE [m EXCEPT !.csv_files_to_load[stream] = Append(@, row),
                 !.row_count[stream] = @ + 1,
                 !.accepted[stream] = Append(@, row),
                 !.primary_key_exists[stream] =
                    IF primary_key_string # None THEN @ \cup {primary_key_string} ELSE @]

\* Lines 107-108: a full batch is flushed in the same pass.
flush_if_full(m, stream, sync, size, fault) ==
  IF m.error = None /\ batch_full(m.row_count[stream], size)
  THEN flush_records(m, stream, sync, "batch_size", fault)
  ELSE m

\* Lines 93-108: the buffer's part of a RECORD, for a validated, non-empty
\* record.
buffer_record(m, stream, sync, record, size, fault) ==
  flush_if_full(
    write_row(
      flush_if_duplicate(ensure_seen(m, stream), stream, sync,
                         record_primary_key_string(sync.key_properties, record),
                         FaultAt(fault, 1)),
      stream,
      record_to_csv_row(sync.schema, record),
      record_primary_key_string(sync.key_properties, record)),
    stream, sync, size, FaultAt(fault, 2))

regVars == <<schemas, validators, key_properties, stream_to_sync>>
bufVars == <<row_count, row_count_keys, csv_files_to_load, primary_key_exists>>
histVars == <<ddl, loads, accepted>>
runVars == <<run, input, first_run, applied>>

Raise_swallowed(kind) ==
  UNCHANGED <<pc, error, state, regVars, bufVars, temp_files, histVars, db_schemata,
               db_tables>>

\* An exception leaves persist_lines: the run ends without a checkpoint.
Raise(kind) ==
  /\ pc' = "aborted"
  /\ error' = kind
  /\ temp_files' = process_exit(temp_files)
  /\ UNCHANGED <<state, regVars, bufVars, histVars, db_schemata, db_tables>>

is_empty_never(record) ==
  FALSE

\* Line 89: "not o['record']", true of the empty mapping.
is_empty(record) ==
  DOMAIN record = {}

\* The objects of Locals after a handler, and the run's end on an exception.
Assign(m) ==
  /\ row_count' = m.row_count
  /\ csv_files_to_load' = m.csv_files_to_load
  /\ temp_files' = IF m.error = None THEN m.temp_files ELSE process_exit(m.temp_files)
  /\ primary_key_exists' = m.primary_key_exists
  /\ db_tables' = m.db_tables
  /\ loads' = m.loads
  /\ accepted' = m.accepted
  /\ error' = m.error
  /\ pc' = IF m.error = None THEN pc ELSE "aborted"

\* Lines 75-110.
HandleRecord(o, fault) ==
  IF "stream" \notin DOMAIN o THEN Raise("protocol")
  ELSE IF o.stream \notin DOMAIN schemas THEN Raise("protocol")
  ELSE IF ~ validate(validators[o.stream], o.record) THEN Raise("validation")
  ELSE IF is_empty(o.record)
  THEN UNCHANGED <<pc, error, state, regVars, bufVars, temp_files, histVars, db_schemata,
               db_tables>>
  ELSE /\ Assign(buffer_record(Locals, o.stream, stream_to_sync[o.stream], o.record,
                               batch_size, fault))
       /\ state' = IF error' = None THEN None ELSE state
       /\ UNCHANGED <<regVars, row_count_keys, ddl, db_schemata>>

\* Lines 111-113.
HandleState(o) ==
  /\ state' = o.value
  /\ UNCHANGED <<pc, error, regVars, bufVars, temp_files, histVars, db_schemata, db_tables>>

\* DbSync.get_tables: the names of the tables of the target schema.
get_tables(tables) ==
  DOMAIN tables

\* DbSync.get_table_columns: the columns of the table whose name is exactly
\* the one given (WHERE table_name = %s); none when no name is.
get_table_columns(name, tables) ==
  IF name \in DOMAIN tables THEN tables[name].columns ELSE {}

\* Lines 250-260 of update_columns: the projected columns whose lower-cased
\* name is not among the lower-cased names get_table_columns returned.
columns_to_add(msg, tables) ==
  SelectSeq(column_names(msg),
            LAMBDA name : lower(name) \notin
                            {lower(c) : c \in get_table_columns(msg.stream, tables)})

\* ALTER TABLE t ADD COLUMN c, in a transaction of its own: the rows get NULL
\* in the new column; a column the table has is an error.
add_column(r, table, c) ==
  IF c \in r.tables[table].columns
  THEN [r EXCEPT !.ddl = Append(@, <<"ALTER TABLE", table, c>>), !.ok = FALSE]
  ELSE [r EXCEPT !.ddl = Append(@, <<"ALTER TABLE", table, c>>),
                 !.tables[table].columns = @ \cup {c},
                 !.tables[table].rows = WithDefaults({c}, @)]

RECURSIVE add_columns(_, _, _)
\* Lines 262-265 of update_columns: one ALTER TABLE per column to add, until
\* one raises.
add_columns(r, table, to_add) ==
  IF to_add = <<>> \/ ~ r.ok THEN r
  ELSE add_columns(add_column(r, table, Head(to_add)), table, Tail(to_add))

\* DbSync.update_columns.
update_columns(msg, tables) ==
  add_columns([tables |-> tables, ddl |-> <<>>, ok |-> TRUE],
              table_name(msg.stream), columns_to_add(msg, tables))

\* DbSync.sync_table: CREATE TABLE when no table has the stream's name in
\* lower case, else update_columns.  The result is the tables, the DDL
\* statements issued and whether all of them succeeded.
sync_table(msg, tables) ==
  IF \A t \in get_tables(tables) : lower(t) # lower(msg.stream)
  THEN [tables |-> Put(tables, table_name(msg.stream),
                       [columns |-> SeqToSet(create_table_query(msg, FALSE).columns),
                        primary_key |-> create_table_query(msg, FALSE).primary_key,
                        rows |-> <<>>]),
        ddl |-> <<<<"CREATE TABLE", table_name(msg.stream)>>>>,
        ok |-> TRUE]
  ELSE update_columns(msg, tables)

already_registered_never(stream, registered) ==
  FALSE

\* Line 118: only the first SCHEMA of a stream registers it.
already_registered(stream, registered) ==
  stream \in DOMAIN registered

\* Lines 123-131, given the outcome `synced` of sync_table.  reached: the
\* call is reached and not failed from outside.
register(o, flat_ok, schema_ok, reached, synced) ==
  /\ schemas' = Put(schemas, o.stream, o)
  /\ validators' = Put(validators, o.stream, o.schema)
  /\ key_properties' = IF "key_properties" \in DOMAIN o
                       THEN Put(key_properties, o.stream, o.key_properties)
                       ELSE key_properties
  /\ stream_to_sync' = IF flat_ok THEN Put(stream_to_sync, o.stream, o) ELSE stream_to_sync
  /\ db_schemata' = (db_schemata \/ schema_ok)
  /\ db_tables' = IF reached THEN synced.tables ELSE db_tables
  /\ ddl' = ddl \o (IF schema_ok /\ ~ db_schemata THEN <<<<"CREATE SCHEMA">>>> ELSE <<>>)
                \o (IF reached THEN synced.ddl ELSE <<>>)
  /\ row_count' = IF reached /\ synced.ok THEN Put(row_count, o.stream, 0) ELSE row_count
  /\ row_count_keys' = IF reached /\ synced.ok /\ o.stream \notin DOMAIN row_count
                       THEN Append(row_count_keys, o.stream)
                       ELSE row_count_keys
  /\ csv_files_to_load' = IF reached /\ synced.ok THEN Put(csv_files_to_load, o.stream, <<>>)
                          ELSE csv_files_to_load
  /\ temp_files' = IF reached /\ synced.ok THEN new_csv_file_entry(temp_files, o.stream)
                   ELSE process_exit(temp_files)
  /\ pc' = IF reached /\ synced.ok THEN pc ELSE "aborted"
  /\ error' = IF reached /\ synced.ok THEN None
              ELSE IF flat_ok THEN "database" ELSE "schema"
  /\ UNCHANGED <<state, primary_key_exists, loads, accepted>>

constructed_unchecked(o) ==
  "key_properties" \in DOMAIN o

\* Whether DbSync(config, o) is constructed: the message has key_properties
\* (line 125) and flatten_schema does not raise (db_sync.py line 89).
constructed(o) ==
  "key_properties" \in DOMAIN o /\ ~ flatten_schema_raises(o.schema)

\* Lines 114-133.  fault.site = 1: create_schema_if_not_exists fails;
\* fault.site = 2: sync_table fails before its first statement.
HandleSchema(o, fault) ==
  IF "stream" \notin DOMAIN o THEN Raise("protocol")
  ELSE IF already_registered(o.stream, schemas)
  THEN UNCHANGED <<pc, error, state, regVars, bufVars, temp_files, histVars, db_schemata,
               db_tables>>
  ELSE register(o, constructed(o), constructed(o) /\ fault.site # 1,
                constructed(o) /\ fault.site = 0,
                IF constructed(o) /\ fault.site = 0 THEN sync_table(o, db_tables)
                ELSE [tables |-> db_tables, ddl |-> <<>>, ok |-> FALSE])

\* Lines 134-135.
HandleActivateVersion ==
  UNCHANGED <<pc, error, state, regVars, bufVars, temp_files, histVars, db_schemata,
               db_tables>>

\* Lines 63-138: one pass of the loop over stdin.
persist_line(o, fault) ==
  IF "unparsable" \in DOMAIN o THEN Raise("parse")
  ELSE IF "type" \notin DOMAIN o THEN Raise("protocol")
  ELSE IF o.type = "RECORD" THEN HandleRecord(o, fault)
  ELSE IF o.type = "STATE" THEN HandleState(o)
  ELSE IF o.type = "SCHEMA" THEN HandleSchema(o, fault)
  ELSE IF o.type = "ACTIVATE_VERSION" THEN HandleActivateVersion
  ELSE Raise("protocol")

IsType(o, t) == "type" \in DOMAIN o /\ o.type = t

\* The database calls a line can reach: two load_csv calls for a RECORD,
\* create_schema_if_not_exists and sync_table for a SCHEMA, none otherwise.
FaultsFor(o) ==
  IF IsType(o, "RECORD") THEN Faults
  ELSE IF IsType(o, "SCHEMA") THEN {NoFault, [site |-> 1, step |-> 1], [site |-> 2, step |-> 1]}
  ELSE {NoFault}

\* Lines 63-138 for the line o, with the histories of what was read.
Step(o, fault) ==
  /\ persist_line(o, fault)
  /\ lines_read' = lines_read + 1
  /\ line' = o
  /\ last_state' = IF pc' = "reading" /\ IsType(o, "STATE") THEN o.value ELSE last_state
  /\ records_since' = IF pc' # "reading" THEN records_since
                      ELSE IF IsType(o, "STATE") THEN 0
                      ELSE IF ~ IsType(o, "RECORD") THEN records_since
                      ELSE IF DOMAIN o.record = {} THEN (IF records_since = 0 THEN 1 ELSE records_since)
                      ELSE 2
  /\ UNCHANGED <<batch_size, drained, stdout>>

ReadLine ==
  /\ pc = "reading"
  /\ lines_read < MaxLines
  /\ \E o \in Lines : \E fault \in FaultsFor(o) : Step(o, fault)
  /\ UNCHANGED runVars

\* stdin is at its end: the loop of lines 63-138 is left.
EndOfInput ==
  /\ pc = "reading"
  /\ pc' = "draining"
  /\ UNCHANGED <<error, batch_size, lines_read, state, regVars, bufVars, temp_files, drained,
                 stdout, db_schemata, db_tables, histVars, line, last_state, records_since,
                 runVars>>

has_rows_two(count) ==
  count > 1

has_rows_always(count) ==
  TRUE

\* Line 141: only a stream with rows is loaded.
has_rows(count) ==
  count > 0

\* Lines 141-142: the body of the final loop for one stream.
drain_entry(m, stream_name, fault) ==
  IF has_rows(m.row_count[stream_name])
  THEN Load(m, stream_name, stream_to_sync[stream_name],
            m.csv_files_to_load[stream_name], m.row_count[stream_name], "end", fault)
  ELSE m

\* Lines 140-142: one entry of row_count.items().
Drain(fault) ==
  /\ pc = "draining"
  /\ drained < Len(row_count_keys)
  /\ Assign(drain_entry(Locals, row_count_keys[drained + 1], fault))
  /\ drained' = IF error' = None THEN drained + 1 ELSE drained
  /\ UNCHANGED <<batch_size, lines_read, state, regVars, row_count_keys, stdout,
                 db_schemata, ddl, line, last_state, records_since, runVars>>

DrainStep ==
  \E fault \in 0..5 : Drain(fault)

emit_state_always(value, out) ==
  Append(out, value)

\* emit_state: one line on stdout unless the state is None.
emit_state(value, out) ==
  IF value # None THEN Append(out, value) ELSE out

\* Lines 144 and 170-173: persist_lines returns the state, main emits it.
EmitState ==
  /\ pc = "draining"
  /\ drained = Len(row_count_keys)
  /\ stdout' = emit_state(state, stdout)
  /\ pc' = "done"
  /\ temp_files' = process_exit(temp_files)
  /\ UNCHANGED <<error, batch_size, lines_read, state, regVars, bufVars, drained,
                 db_schemata, db_tables, histVars, line, last_state, records_since, runVars>>

Next == ReadLine \/ EndOfInput \/ DrainStep \/ EmitState

Spec == Init /\ [][Next]_vars

\* ------------------------------------------------------------- the second run

\* The lines of the runs that are repeated: one stream, with a key or without,
\* three records of which two share their key, and a line that is no message.
RerunLines ==
  {[type |-> "SCHEMA", stream |-> "a", schema |-> [properties |-> Properties, required |-> {"id"}],
    key_properties |-> <<"Id">>],
   [type |-> "SCHEMA", stream |-> "a", schema |-> [properties |-> Properties, required |-> {}],
    key_properties |-> <<>>],
   [type |-> "RECORD", stream |-> "a", record |-> r_A1],
   [type |-> "RECORD", stream |-> "a", record |-> r_B],
   [type |-> "RECORD", stream |-> "a", record |-> r_A2],
   [type |-> "BOGUS"]}

\* The first run reads a line; the database does not fail on its own.
FirstRunLine ==
  /\ run = 1
  /\ pc = "reading"
  /\ lines_read < MaxRerunLines
  /\ \E o \in RerunLines :
       /\ Step(o, NoFault)
       /\ input' = Append(input, o)
  /\ UNCHANGED <<run, first_run, applied>>

\* The second run reads the line the first run read at the same place.
SecondRunLine ==
  /\ run = 2
  /\ pc = "reading"
  /\ lines_read < Len(input)
  /\ Step(input[lines_read + 1], NoFault)
  /\ UNCHANGED runVars

\* stdin ends where it ended in the first run.
RerunEndOfInput ==
  /\ run = 2 => lines_read = Len(input)
  /\ EndOfInput

RerunDrainStep ==
  Drain(0)

\* main is started again with the same config: the locals of persist_lines
\* are new, the database is as the first run left it.
Restart ==
  /\ run = 1
  /\ pc \in {"done", "aborted"}
  /\ run' = 2
  /\ first_run' = [pc |-> pc, error |-> error, db_tables |-> db_tables]
  /\ pc' = "reading"
  /\ error' = None
  /\ lines_read' = 0
  /\ state' = None
  /\ schemas' = EmptyMap
  /\ validators' = EmptyMap
  /\ key_properties' = EmptyMap
  /\ stream_to_sync' = EmptyMap
  /\ row_count' = EmptyMap
  /\ row_count_keys' = <<>>
  /\ csv_files_to_load' = EmptyMap
  /\ temp_files' = <<>>
  /\ primary_key_exists' = EmptyMap
  /\ drained' = 0
  /\ stdout' = <<>>
  /\ ddl' = <<>>
  /\ loads' = <<>>
  /\ accepted' = [s \in StreamNames |-> <<>>]
  /\ line' = NoLine
  /\ last_state' = NoState
  /\ records_since' = 0
  /\ UNCHANGED <<batch_size, db_schemata, db_tables, input, applied>>

NextRerun ==
  FirstRunLine \/ SecondRunLine \/ RerunEndOfInput \/ RerunDrainStep \/ EmitState \/ Restart

SpecRerun == Init /\ [][NextRerun]_vars

\* ------------------------------------------------- a run on existing tables

\* What earlier runs may have left in the target schema: nothing, a table
\* of a stream with key "id" and one row, a table of a stream without key,
\* a table of a stream with key ("id", "sub") and two rows of one id.
ExistingTables ==
  {EmptyMap,
   [a |-> [columns |-> {"id", "sub"}, primary_key |-> <<"id">>,
           rows |-> <<[id |-> "1", sub |-> "2,3"]>>]],
   [a |-> [columns |-> {"sub", "v"}, primary_key |-> <<>>, rows |-> <<>>]],
   [a |-> [columns |-> {"id", "sub", "v"}, primary_key |-> <<"id", "sub">>,
           rows |-> <<[id |-> "1", sub |-> "2,3", v |-> "x"],
                      [id |-> "1", sub |-> "9", v |-> "q"]>>]]}

\* The lines of these runs: streams "a" and "A", with and without column v.
EvolveLines ==
  {[type |-> "SCHEMA", stream |-> s, key_properties |-> <<"Id">>,
    schema |-> [properties |-> ps, required |-> {}]] :
     s \in {"a", "A"}, ps \in {{"id", "sub"}, Properties}}
  \cup {[type |-> "RECORD", stream |-> s, record |-> r] : s \in {"a", "A"}, r \in {r_A1, r_A2}}

InitEvolve ==
  /\ InitLocals
  /\ db_tables \in ExistingTables
  /\ db_schemata = (db_tables # EmptyMap)

EvolveLine ==
  /\ pc = "reading"
  /\ lines_read < MaxLines
  /\ \E o \in EvolveLines : Step(o, NoFault)
  /\ UNCHANGED runVars

NextEvolve == EvolveLine \/ EndOfInput \/ DrainStep \/ EmitState

SpecEvolve == InitEvolve /\ [][NextEvolve]_vars

\* ------------------------------------------------ the functions on their own

\* The names of a 'type' list.
TypeNames == {"null", "string", "integer", "number", "boolean", "object", "array", "unknown"}

\* The properties column_type is applied to: any type list, without format
\* or with one.
SchemaProperties ==
  {[type |-> t] : t \in SUBSET TypeNames}
  \cup {[type |-> t, format |-> f] : t \in SUBSET TypeNames, f \in {"date-time", "date"}}

\* The records the row functions are applied to: any of the properties Id,
\* sub and v, each empty or not.
FunctionRecords ==
  UNION {[ps -> {"", "1", "2"}] : ps \in SUBSET {"Id", "sub", "v"}}
  \cup {[test__primary |-> "1"], [test__primary |-> "1", test_secondary |-> "2"]}

KeyPropertyLists ==
  {<<>>, <<"Id">>, <<"Id", "sub">>, <<"sub", "Id">>,
   <<"Test Primary">>, <<"Test Primary", "Test_secondary">>}

Apply_column_type ==
  /\ applied = NoCall
  /\ \E p \in SchemaProperties :
       applied' = [fn |-> "column_type", arg |-> p, result |-> column_type(p)]
  /\ UNCHANGED <<pc, error, batch_size, lines_read, state, regVars, bufVars, temp_files,
                 drained, stdout, db_schemata, db_tables, histVars, line, last_state,
                 records_since, run, input, first_run>>

\* record_primary_key_string applied to two records of one stream.
Apply_record_primary_key_string ==
  /\ applied = NoCall
  /\ \E kp \in KeyPropertyLists : \E r, q \in FunctionRecords :
       applied' = [fn |-> "record_primary_key_string",
                   arg |-> [key_properties |-> kp, record |-> r, other |-> q],
                   result |-> <<record_primary_key_string(kp, r),
                                record_primary_key_string(kp, q)>>]
  /\ UNCHANGED <<pc, error, batch_size, lines_read, state, regVars, bufVars, temp_files,
                 drained, stdout, db_schemata, db_tables, histVars, line, last_state,
                 records_since, run, input, first_run>>

Apply_record_to_csv_row ==
  /\ applied = NoCall
  /\ \E ps \in SUBSET {"Id", "sub", "v"} : \E r \in FunctionRecords :
       applied' = [fn |-> "record_to_csv_row",
                   arg |-> [schema |-> [properties |-> ps, required |-> {}], record |-> r],
                   result |-> record_to_csv_row([properties |-> ps, required |-> {}], r)]
  /\ UNCHANGED <<pc, error, batch_size, lines_read, state, regVars, bufVars, temp_files,
                 drained, stdout, db_schemata, db_tables, histVars, line, last_state,
                 records_since, run, input, first_run>>

NextFunctions ==
  Apply_column_type \/ Apply_record_primary_key_string \/ Apply_record_to_csv_row

SpecFunctions == Init /\ [][NextFunctions]_vars

\* ---------------------------------------------------------------- the claims

IsLineStep == lines_read' = lines_read + 1

RECURSIVE MergedRows(_, _)
\* The CSV rows of stream s that load_csv committed in its first n calls.
MergedRows(s, n) ==
  IF n = 0 THEN <<>>
  ELSE MergedRows(s, n - 1)
       \o (IF loads[n].stream = s /\ loads[n].ok THEN loads[n].file ELSE <<>>)

AllMerged == \A s \in Streams : MergedRows(s, Len(loads)) = accepted[s]

\* The primary-key values of a table row, in declared order.
KeyOf(names, row) == [i \in 1..Len(names) |-> row[names[i]]]

\* The fingerprint of a staged or table row: None when a key is NULL.
RowFingerprint(names, row) ==
  IF Len(names) = 0 \/ \E i \in 1..Len(names) : row[names[i]] = NULL THEN None
  ELSE Join(",", KeyOf(names, row))

\* The accepted records of stream s as table rows, in input order.
AcceptedRows(s) ==
  [i \in 1..Len(accepted[s]) |-> CopyRow(column_names(stream_to_sync[s]), accepted[s][i])]

KeyedStreams == {s \in DOMAIN row_count : Len(key_properties[s]) > 0}

\* C1 (as amended): at the clean end of a run, for every stream with key
\* properties and every primary-key value tuple among its accepted records,
\* the table holds exactly one row with that key, and it is the row of the
\* last accepted record with that key.
LastWinsPerKey ==
  pc = "done" =>
    \A s \in KeyedStreams :
      LET names == primary_column_names(key_properties[s])
          recs == AcceptedRows(s)
      IN \A i \in 1..Len(recs) :
           LET last == CHOOSE j \in i..Len(recs) :
                         /\ KeyOf(names, recs[j]) = KeyOf(names, recs[i])
                         /\ \A k \in (j + 1)..Len(recs) :
                              KeyOf(names, recs[k]) # KeyOf(names, recs[i])
           IN SelectSeq(db_tables[s].rows,
                        LAMBDA t : KeyOf(names, t) = KeyOf(names, recs[i])) = <<recs[last]>>

\* C1 witness: a clean end where a key was written twice with different
\* values, in two batches.
LastWinsWitness ==
  /\ pc = "done"
  /\ \E s \in KeyedStreams :
       LET names == primary_column_names(key_properties[s])
           recs == AcceptedRows(s)
       IN /\ Len(loads) >= 2
          /\ \E i, j \in 1..Len(recs) :
               i < j /\ KeyOf(names, recs[i]) = KeyOf(names, recs[j]) /\ recs[i] # recs[j]

\* C1 as stated: exactly one row per fingerprint, the last record's.
LastWinsPerFingerprint ==
  pc = "done" =>
    \A s \in KeyedStreams :
      LET names == primary_column_names(key_properties[s])
          recs == AcceptedRows(s)
      IN \A i \in 1..Len(recs) :
           LET last == CHOOSE j \in i..Len(recs) :
                         /\ RowFingerprint(names, recs[j]) = RowFingerprint(names, recs[i])
                         /\ \A k \in (j + 1)..Len(recs) :
                              RowFingerprint(names, recs[k]) # RowFingerprint(names, recs[i])
           IN SelectSeq(db_tables[s].rows,
                        LAMBDA t : RowFingerprint(names, t) = RowFingerprint(names, recs[i]))
                = <<recs[last]>>

\* C2 (as amended): at the clean end of a run stdout holds exactly the value
\* of the last STATE line when that value is not null and no RECORD with a
\* non-empty record was handled after it, and nothing otherwise.
CheckpointValue ==
  pc = "done" =>
    stdout = IF last_state \notin {NoState, None} /\ records_since < 2
             THEN <<last_state>> ELSE <<>>

\* C2 witness: the checkpoint is written although an (empty) RECORD came
\* after the STATE line.
CheckpointValueWitness ==
  pc = "done" /\ records_since = 1 /\ stdout = <<"s2">>

\* C2 as stated: every RECORD line resets the pending checkpoint, so the last
\* STATE value is written exactly when no RECORD line came after it.
CheckpointValueAnyRecord ==
  pc = "done" =>
    stdout = IF last_state \notin {NoState, None} /\ records_since = 0
             THEN <<last_state>> ELSE <<>>

\* C3: when a checkpoint is on stdout, every accepted record of every stream
\* is in a batch that load_csv committed.
CheckpointSafety ==
  stdout # <<>> => AllMerged

\* C3 witness: a checkpoint was written after records were accepted and merged.
CheckpointSafetyWitness ==
  /\ stdout # <<>>
  /\ \E s \in Streams : accepted[s] # <<>> /\ row_count[s] > 0

\* The fingerprints of the rows of a CSV file of stream s.
FileFingerprints(s, file) ==
  [i \in 1..Len(file) |->
     RowFingerprint(primary_column_names(key_properties[s]),
                    CopyRow(column_names(stream_to_sync[s]), file[i]))]

NoDuplicateIn(s, file) ==
  \A i, j \in 1..Len(file) :
    (i < j /\ FileFingerprints(s, file)[i] # None)
      => FileFingerprints(s, file)[i] # FileFingerprints(s, file)[j]

NoDuplicateInBatch ==
  /\ \A n \in 1..Len(loads) : NoDuplicateIn(loads[n].stream, loads[n].file)
  /\ \A s \in DOMAIN csv_files_to_load : NoDuplicateIn(s, csv_files_to_load[s])

\* A RECORD line whose fingerprint is in the seen-set, handled without error.
DuplicateStep ==
  /\ IsLineStep
  /\ IsType(line', "RECORD")
  /\ "stream" \in DOMAIN line'
  /\ line'.stream \in DOMAIN primary_key_exists
  /\ validate(validators[line'.stream], line'.record)
  /\ record_primary_key_string(key_properties[line'.stream], line'.record)
       \in primary_key_exists[line'.stream] \ {None}
  /\ pc' = "reading"

\* C4: no batch handed to load_csv and no open buffer holds two rows with
\* the same non-null fingerprint; a RECORD whose fingerprint is in the
\* seen-set hands the buffer as it was to load_csv and becomes the only row
\* of the new buffer.
NoDuplicateKeyInBatch ==
  /\ [] NoDuplicateInBatch
  /\ [][DuplicateStep =>
          /\ Len(loads') = Len(loads) + 1
          /\ loads'[Len(loads')].stream = line'.stream
          /\ loads'[Len(loads')].file = csv_files_to_load[line'.stream]
          /\ csv_files_to_load'[line'.stream]
               = <<record_to_csv_row(validators[line'.stream], line'.record)>>]_vars

\* C4 witness: a duplicate fingerprint has flushed a batch and the record is
\* the only row of the new buffer.
NoDuplicateKeyInBatchWitness ==
  /\ pc = "reading"
  /\ loads # <<>>
  /\ loads[Len(loads)].cause = "duplicate"
  /\ loads[Len(loads)].ok
  /\ Len(csv_files_to_load[loads[Len(loads)].stream]) = 1
  /\ FileFingerprints(loads[Len(loads)].stream, csv_files_to_load[loads[Len(loads)].stream])[1]
       \in {FileFingerprints(loads[Len(loads)].stream, loads[Len(loads)].file)[i] :
              i \in 1..Len(loads[Len(loads)].file)}

\* A line that breaks the protocol, given the streams registered so far.
ProtocolError(o) ==
  /\ "unparsable" \notin DOMAIN o
  /\ \/ "type" \notin DOMAIN o
     \/ o.type \notin {"RECORD", "STATE", "SCHEMA", "ACTIVATE_VERSION"}
     \/ o.type \in {"RECORD", "SCHEMA"} /\ "stream" \notin DOMAIN o
     \/ o.type = "RECORD" /\ o.stream \notin DOMAIN schemas

\* C5: a second run over the same input, against the database the first
\* run left and with no failure of the database's own, ends as the first run
\* ended and leaves every table with the rows it had after the first run.
IdempotentRerun ==
  (run = 2 /\ pc \in {"done", "aborted"})
    => /\ db_tables = first_run.db_tables
       /\ pc = first_run.pc
       /\ error = first_run.error

\* C5 witness: the second run ended cleanly after several merges, one of
\* which had set a row to a value that is not the final one.
IdempotentRerunWitness ==
  /\ run = 2
  /\ pc = "done"
  /\ Len(loads) >= 2
  /\ \E n \in 1..Len(loads) :
       /\ loads[n].ok
       /\ \E i \in 1..Len(loads[n].file) :
            \A k \in 1..Len(db_tables[loads[n].stream].rows) :
              db_tables[loads[n].stream].rows[k]
                # CopyRow(column_names(stream_to_sync[loads[n].stream]), loads[n].file[i])

\* C6: a line that breaks the protocol ends the run at that line with no
\* buffer, table or stdout changed; no step follows the end of a run, and an
\* aborted run has written no checkpoint.
ProtocolErrorsFatal ==
  /\ [][/\ pc \notin {"aborted", "done"}
        /\ (IsLineStep /\ ProtocolError(line')) =>
              /\ pc' = "aborted"
              /\ error' = "protocol"
              /\ UNCHANGED <<csv_files_to_load, row_count, primary_key_exists, accepted,
                             loads, db_tables, stdout>>]_vars
  /\ [](pc = "aborted" => stdout = <<>>)

\* C6 witness: a protocol error ended a run that had buffered a record and
\* held a pending checkpoint.
ProtocolErrorsFatalWitness ==
  /\ pc = "aborted"
  /\ error = "protocol"
  /\ ProtocolError(line)
  /\ state # None
  /\ \E s \in DOMAIN row_count : row_count[s] > 0

\* C7: a SCHEMA line for a registered stream changes nothing of the stream's
\* registration, buffer, count and fingerprints, issues no DDL, touches no
\* table and does not end the run; at a clean end every accepted record is merged.
SecondSchemaIgnored ==
  /\ [][(IsLineStep /\ IsType(line', "SCHEMA") /\ "stream" \in DOMAIN line'
           /\ line'.stream \in DOMAIN schemas) =>
          /\ pc' = pc
          /\ UNCHANGED <<schemas, validators, key_properties, stream_to_sync,
                         csv_files_to_load, row_count, row_count_keys, primary_key_exists,
                         ddl, db_schemata, db_tables, loads, state>>]_vars
  /\ [](pc = "done" => AllMerged)

\* C7 witness: a clean end after a different SCHEMA line for a stream arrived while
\* the stream's buffer held a row.
SecondSchemaIgnoredWitness ==
  /\ pc = "done"
  /\ IsType(line, "SCHEMA")
  /\ "stream" \in DOMAIN line
  /\ line.stream \in DOMAIN row_count
  /\ row_count[line.stream] > 0
  /\ line # schemas[line.stream]
  /\ \E n \in 1..Len(loads) : loads[n].stream = line.stream /\ loads[n].ok

\* The load_csv calls of the final loop for stream s.
DrainCalls(s) == {n \in 1..Len(loads) : loads[n].stream = s /\ loads[n].cause = "end"}

\* C8: at the clean end of a run, every stream with a non-zero count was
\* loaded exactly once by the final loop, with its buffer and count, and a
\* stream with a zero count was not loaded by it.
EndOfInputDrain ==
  pc = "done" =>
    \A s \in DOMAIN row_count :
      IF row_count[s] > 0
      THEN /\ Cardinality(DrainCalls(s)) = 1
           /\ \A n \in DrainCalls(s) :
                /\ loads[n].ok
                /\ loads[n].file = csv_files_to_load[s]
                /\ loads[n].count = row_count[s]
      ELSE DrainCalls(s) = {}

\* C8 witness: a clean end with one stream that had rows and one that had none.
EndOfInputDrainWitness ==
  /\ pc = "done"
  /\ \E s, t \in DOMAIN row_count : row_count[s] > 0 /\ row_count[t] = 0

\* C9: while the run has not failed, every stream's count is below
\* batch_size after each line; and no batch handed to load_csv holds more
\* than batch_size rows.
ThresholdFlush ==
  /\ pc # "aborted" => \A s \in DOMAIN row_count : row_count[s] < batch_size
  /\ \A n \in 1..Len(loads) : Len(loads[n].file) <= batch_size /\ loads[n].count <= batch_size

\* C9 witness: a batch of batch_size >= 2 rows was flushed on reaching the
\* threshold.
ThresholdFlushWitness ==
  /\ pc = "reading"
  /\ batch_size >= 2
  /\ \E n \in 1..Len(loads) :
       loads[n].cause = "batch_size" /\ loads[n].ok /\ Len(loads[n].file) = batch_size

\* A RECORD line with an empty record for a registered stream.
EmptyRecordStep ==
  /\ IsLineStep
  /\ IsType(line', "RECORD")
  /\ "stream" \in DOMAIN line'
  /\ line'.stream \in DOMAIN schemas
  /\ DOMAIN line'.record = {}

EmptyRecordSkipped ==
  /\ pc' = "reading"
  /\ UNCHANGED <<csv_files_to_load, row_count, primary_key_exists, accepted, loads,
                 db_tables>>

\* C10 (as amended): a RECORD whose record is empty and passes the stream's
\* validator writes no row, leaves count, fingerprints and buffer as they
\* were, triggers no flush and does not end the run.
EmptyRecordSkippedIfValid ==
  [][(EmptyRecordStep /\ validate(validators[line'.stream], line'.record))
       => EmptyRecordSkipped]_vars

\* C10 witness: an empty record was skipped while the buffer held a row.
EmptyRecordSkippedWitness ==
  /\ pc = "reading"
  /\ IsType(line, "RECORD")
  /\ "stream" \in DOMAIN line
  /\ DOMAIN line.record = {}
  /\ line.stream \in DOMAIN row_count
  /\ row_count[line.stream] > 0

\* C10 as stated: every empty record is skipped without ending the run.
EmptyRecordSkippedAlways ==
  [][EmptyRecordStep => EmptyRecordSkipped]_vars

RECURSIVE Replay(_, _)
\* The rows of the table of stream s after the batches that load_csv
\* committed among its first n calls, applied to the empty table in flush
\* order.
Replay(s, n) ==
  IF n = 0 THEN <<>>
  ELSE IF loads[n].stream = s /\ loads[n].ok
  THEN LET names == primary_column_names(key_properties[s])
           staged == copy_expert(column_names(stream_to_sync[s]), loads[n].file)
           updated == update_from_temp_table(names, Replay(s, n - 1), staged)
       IN updated \o insert_from_temp_table(names, updated, staged)
  ELSE Replay(s, n - 1)

\* C11: a load_csv call that fails is the last one of the run (it is not
\* tried again and no other follows), the run has ended with the database
\* error and nothing on stdout, no step follows the end, and every table
\* holds the result of the committed batches, which are a prefix of the
\* batches in flush order.
DatabaseFailureFatal ==
  /\ [](\A n \in 1..Len(loads) :
          ~ loads[n].ok => /\ n = Len(loads)
                           /\ pc = "aborted"
                           /\ error = "database"
                           /\ stdout = <<>>)
  /\ [](\A s \in DOMAIN row_count : db_tables[s].rows = Replay(s, Len(loads)))
  /\ [][pc # "aborted"]_vars

\* C11 witness: a merge failed at its INSERT or later after an earlier
\* batch of the same stream was committed, and the table holds that batch.
DatabaseFailureFatalWitness ==
  /\ pc = "aborted"
  /\ Len(loads) >= 2
  /\ loads[1].ok
  /\ ~ loads[Len(loads)].ok
  /\ Len(loads[Len(loads)].statements) >= 4
  /\ loads[Len(loads)].stream = loads[1].stream
  /\ db_tables[loads[1].stream].rows # <<>>

\* C17: every merge issues a prefix of CREATE TEMP TABLE, COPY, UPDATE,
\* INSERT, DROP TABLE in this order, all five when it succeeds and none after
\* the one that fails (the UPDATE of a stream without key columns); a failed
\* merge is the last one, so no merge runs beside or after it.
StagingOrder ==
  \A n \in 1..Len(loads) :
    /\ loads[n].statements \in
         {<<"CREATE TEMP TABLE">>,
          <<"CREATE TEMP TABLE", "COPY">>,
          <<"CREATE TEMP TABLE", "COPY", "UPDATE">>,
          <<"CREATE TEMP TABLE", "COPY", "UPDATE", "INSERT">>,
          <<"CREATE TEMP TABLE", "COPY", "UPDATE", "INSERT", "DROP TABLE">>}
    /\ loads[n].ok => Len(loads[n].statements) = 5
    /\ Len(key_properties[loads[n].stream]) = 0 => Len(loads[n].statements) <= 3
    /\ ~ loads[n].ok => n = Len(loads)

\* C17 witness: one merge ran all five statements and a later one stopped
\* at its INSERT.
StagingOrderWitness ==
  \E n, k \in 1..Len(loads) :
    /\ n < k
    /\ loads[n].ok
    /\ Len(loads[n].statements) = 5
    /\ ~ loads[k].ok
    /\ loads[k].statements = <<"CREATE TEMP TABLE", "COPY", "UPDATE", "INSERT">>

\* C18 as stated: a merge of a stream without key properties issues no
\* UPDATE, and the table of such a stream holds exactly the rows of the
\* batches handed to load_csv, appended in flush order.
KeylessAppend ==
  /\ \A n \in 1..Len(loads) :
       Len(key_properties[loads[n].stream]) = 0 =>
         /\ \A i \in 1..Len(loads[n].statements) : loads[n].statements[i] # "UPDATE"
         /\ Len(loads[n].statements) >= 3 => loads[n].ok
  /\ \A s \in DOMAIN row_count :
       Len(key_properties[s]) = 0 =>
         db_tables[s].rows = copy_expert(column_names(stream_to_sync[s]),
                                         MergedRows(s, Len(loads)))

\* Whether a CSV file of stream s has a row with an empty key field.
HasNullKey(s, file) ==
  \E i \in 1..Len(file) :
    \E k \in 1..Len(key_properties[s]) :
      CopyRow(column_names(stream_to_sync[s]), file[i])
        [primary_column_names(key_properties[s])[k]] = NULL

\* C19 (as amended): the staging table of every merge has the column list
\* of the CREATE TABLE of the target and the same PRIMARY KEY clause: the
\* inflected key properties when the stream has any, none otherwise.  So a
\* batch with a row whose key is NULL fails at its COPY.
StagingTableAsTarget ==
  \A n \in 1..Len(loads) :
    LET msg == stream_to_sync[loads[n].stream]
    IN /\ create_table_query(msg, TRUE).temporary
       /\ create_table_query(msg, TRUE).columns = create_table_query(msg, FALSE).columns
       /\ create_table_query(msg, TRUE).primary_key = primary_column_names(msg.key_properties)
       /\ create_table_query(msg, FALSE).primary_key = primary_column_names(msg.key_properties)
       /\ HasNullKey(loads[n].stream, loads[n].file) =>
            ~ loads[n].ok /\ Len(loads[n].statements) <= 2

\* C19 witness: a merge of a stream with key properties stopped at its COPY
\* on a row without key value, after a merge of the stream had succeeded.
StagingTableAsTargetWitness ==
  \E n, k \in 1..Len(loads) :
    /\ n < k
    /\ loads[n].ok
    /\ loads[k].stream = loads[n].stream
    /\ Len(key_properties[loads[k].stream]) > 0
    /\ HasNullKey(loads[k].stream, loads[k].file)
    /\ loads[k].statements = <<"CREATE TEMP TABLE", "COPY">>

\* C19 as stated: the staging table has the target's column list and no
\* PRIMARY KEY clause, whatever the stream's key properties.
StagingTableWithoutKey ==
  \A n \in 1..Len(loads) :
    LET msg == stream_to_sync[loads[n].stream]
    IN /\ create_table_query(msg, TRUE).columns = create_table_query(msg, FALSE).columns
       /\ create_table_query(msg, TRUE).primary_key = <<>>
       /\ create_table_query(msg, FALSE).primary_key = primary_column_names(msg.key_properties)

\* A SCHEMA line for a stream that is not registered while a table with the
\* stream's name, compared in lower case, exists.
SchemaOnExistingTable ==
  /\ IsLineStep
  /\ IsType(line', "SCHEMA")
  /\ "stream" \in DOMAIN line'
  /\ line'.stream \notin DOMAIN schemas
  /\ lower(line'.stream) \in DOMAIN db_tables

\* The projected columns of a SCHEMA message that a table lacks, in order.
AbsentColumns(msg, table) ==
  SelectSeq(column_names(msg), LAMBDA c : c \notin table.columns)

\* C12 as stated: a SCHEMA for a stream whose table exists issues exactly one
\* ALTER TABLE ADD COLUMN per projected column the table lacks and none for
\* a column it has, the table then has the old and the projected columns,
\* and the run goes on; no step removes a table or a column.
AddOnlyEvolution ==
  /\ [][SchemaOnExistingTable =>
          /\ ddl' = ddl \o [i \in 1..Len(AbsentColumns(line', db_tables[lower(line'.stream)])) |->
                              <<"ALTER TABLE", lower(line'.stream),
                                AbsentColumns(line', db_tables[lower(line'.stream)])[i]>>]
          /\ db_tables'[lower(line'.stream)].columns
               = db_tables[lower(line'.stream)].columns \cup SeqToSet(column_names(line'))
          /\ pc' = pc]_vars
  /\ [][\A t \in DOMAIN db_tables :
          t \in DOMAIN db_tables' /\ db_tables[t].columns \subseteq db_tables'[t].columns]_vars

\* C12, for a stream whose name is in lower case.
AddOnlyEvolutionLowerCase ==
  [][(SchemaOnExistingTable /\ lower(line'.stream) = line'.stream) =>
          /\ ddl' = ddl \o [i \in 1..Len(AbsentColumns(line', db_tables[lower(line'.stream)])) |->
                              <<"ALTER TABLE", lower(line'.stream),
                                AbsentColumns(line', db_tables[lower(line'.stream)])[i]>>]
          /\ db_tables'[lower(line'.stream)].columns
               = db_tables[lower(line'.stream)].columns \cup SeqToSet(column_names(line'))
          /\ pc' = pc]_vars

\* A SCHEMA line for a stream that is not registered, without
\* 'key_properties' or with two properties of the same column name.
SchemaErrorStep ==
  /\ IsLineStep
  /\ IsType(line', "SCHEMA")
  /\ "stream" \in DOMAIN line'
  /\ line'.stream \notin DOMAIN schemas
  /\ \/ "key_properties" \notin DOMAIN line'
     \/ Cardinality({inflect_column_name(p) : p \in line'.schema.properties})
          < Cardinality(line'.schema.properties)

\* C13: a SCHEMA without 'key_properties' or with two properties of one
\* column name ends the run at that line with a schema error; no DDL
\* statement is issued, no table or schema is created or changed, and the
\* stream gets no DbSync and no buffer.
SchemaErrorsFatal ==
  [][SchemaErrorStep =>
       /\ pc' = "aborted"
       /\ error' = "schema"
       /\ UNCHANGED <<ddl, db_schemata, db_tables, stream_to_sync, row_count,
                      csv_files_to_load, stdout>>]_vars

\* C13 witness: a SCHEMA with a duplicate column name ended a run in which
\* another stream had been registered and had got its table.
SchemaErrorsFatalWitness ==
  /\ pc = "aborted"
  /\ error = "schema"
  /\ IsType(line, "SCHEMA")
  /\ "key_properties" \in DOMAIN line
  /\ "b" \in DOMAIN db_tables
  /\ line.stream \notin DOMAIN db_tables

\* C14 as stated: column_type has a result for every type list and format,
\* and it is one of jsonb, timestamp with time zone, numeric, bigint,
\* boolean, character varying.
ColumnTypeSixTypes ==
  applied.fn = "column_type" =>
    applied.result \in {"jsonb", "timestamp with time zone", "numeric", "bigint", "boolean",
                        "character varying"}

\* The name PostgreSQL reports for a type written as column_type writes it.
CanonicalType(sql) ==
  CASE sql = "JSONB" -> "jsonb"
    [] sql = "timestamp" -> "timestamp without time zone"
    [] sql = "decimal" -> "numeric"
    [] sql = "bool" -> "boolean"
    [] sql = "varchar" -> "character varying"
    [] OTHER -> sql

\* C14, up to the spelling of the type: is the type column_type names one
\* of the six?
ColumnTypeSixCanonicalTypes ==
  applied.fn = "column_type" =>
    CanonicalType(applied.result) \in
      {"jsonb", "timestamp with time zone", "numeric", "bigint", "boolean", "character varying"}

\* The SQL type of a JSON Schema type name.
TypeOfName(name) ==
  CASE name = "number" -> "numeric"
    [] name = "integer" -> "bigint"
    [] name = "boolean" -> "boolean"
    [] OTHER -> "character varying"

\* C15 as stated: for a type list without object and array (and without
\* format) the column type is, up to its spelling, the type of the most
\* general name of the list.
ColumnTypeGeneralises ==
  (/\ applied.fn = "column_type"
   /\ "format" \notin DOMAIN applied.arg
   /\ applied.arg.type \cap {"object", "array"} = {})
    => CanonicalType(applied.result) = TypeOfName(most_general_type(applied.arg.type))

\* The value of key property k in a record, when the record has it.
KeyValue(record, k) ==
  record[CHOOSE p \in DOMAIN record :
           inflect_column_name(p) = inflect_column_name(safe_column_name(k))]

HasKey(record, k) ==
  \E p \in DOMAIN record : inflect_column_name(p) = inflect_column_name(safe_column_name(k))

\* The fingerprint the claim describes, for lists of at most two keys.
Fingerprint(kp, record) ==
  IF Len(kp) = 0 \/ \E i \in 1..Len(kp) : ~ HasKey(record, kp[i]) THEN None
  ELSE IF Len(kp) = 1 THEN KeyValue(record, kp[1])
  ELSE KeyValue(record, kp[1]) \o "," \o KeyValue(record, kp[2])

\* C16: the fingerprint is the values of the key columns in declared order
\* joined by commas; it is None exactly when there is no key property or
\* the record lacks a key value; two records with the same value in every
\* key column have the same fingerprint.
FingerprintDefinition ==
  applied.fn = "record_primary_key_string" =>
    LET kp == applied.arg.key_properties
        r == applied.arg.record
        q == applied.arg.other
    IN /\ applied.result[1] = Fingerprint(kp, r)
       /\ applied.result[1] = None
            <=> (Len(kp) = 0 \/ \E i \in 1..Len(kp) : ~ HasKey(r, kp[i]))
       /\ (\A i \in 1..Len(kp) :
             HasKey(r, kp[i]) /\ HasKey(q, kp[i]) /\ KeyValue(r, kp[i]) = KeyValue(q, kp[i]))
            => applied.result[1] = applied.result[2]

\* C16 witness: two different records with the same two key values, given
\* in the order sub, Id, got the fingerprint "2,1".
FingerprintDefinitionWitness ==
  /\ applied.fn = "record_primary_key_string"
  /\ applied.arg.key_properties = <<"sub", "Id">>
  /\ applied.arg.record # applied.arg.other
  /\ applied.result = <<"2,1", "2,1">>

\* The place of a column name in sorted order.
Rank(c) ==
  CASE c = "id" -> 1
    [] c = "sub" -> 2
    [] c = "v" -> 3

\* C20: the CSV row has one field per projected column, in the sorted order
\* of the column names, which is the order of the column list of the COPY
\* and of the staging table; a field is the record's value, or empty when
\* the record has no value for the column or an empty one.
CsvRowShape ==
  applied.fn = "record_to_csv_row" =>
    LET msg == [schema |-> applied.arg.schema, key_properties |-> <<>>]
        cols == flatten_schema(applied.arg.schema)
        r == applied.arg.record
    IN /\ Len(applied.result) = Len(cols)
       /\ Len(cols) = Cardinality(applied.arg.schema.properties)
       /\ \A i, j \in 1..Len(cols) : i < j => Rank(cols[i]) < Rank(cols[j])
       /\ column_names(msg) = cols
       /\ create_table_query(msg, TRUE).columns = cols
       /\ \A i \in 1..Len(cols) :
            applied.result[i] = IF HasKey(r, cols[i]) THEN KeyValue(r, cols[i]) ELSE ""

\* C20 witness: a row of three fields for a record with a value, an empty
\* value and no value for the three columns.
CsvRowShapeWitness ==
  /\ applied.fn = "record_to_csv_row"
  /\ Len(applied.result) = 3
  /\ DOMAIN applied.arg.record = {"Id", "v"}
  /\ applied.arg.record["v"] = ""
  /\ applied.result = <<"1", "", "">>

\* The temporary files that are open, and those of one stream.
OpenFiles == {i \in 1..Len(temp_files) : temp_files[i].holder # None}

OpenFilesOf(s) == {i \in OpenFiles : temp_files[i].stream = s}

\* The load_csv calls made by flush_records for stream s.
FlushCalls(s) == {n \in 1..Len(loads) : loads[n].stream = s /\ loads[n].cause # "end"}

\* C21: every temporary file is released on every exit path.  While the run
\* goes on the open files are the buffer files, one per registered stream,
\* so that the file of every batch a flush has merged is closed; once the run
\* has ended, cleanly or by an exception (a failed merge included), no file
\* is open.  No stream ever has more than one open buffer file.
TemporaryFilesReleased ==
  /\ pc \in {"done", "aborted"} => OpenFiles = {}
  /\ pc \in {"reading", "draining"} =>
       /\ \A i \in OpenFiles : temp_files[i].holder = "csv_files_to_load"
       /\ \A s \in StreamNames :
            Cardinality(OpenFilesOf(s)) = IF s \in DOMAIN csv_files_to_load THEN 1 ELSE 0
       /\ \A s \in DOMAIN csv_files_to_load :
            Cardinality({i \in 1..Len(temp_files) : temp_files[i].stream = s} \ OpenFiles)
              = Cardinality(FlushCalls(s))
  /\ \A s \in StreamNames :
       Cardinality({i \in OpenFilesOf(s) : temp_files[i].holder = "csv_files_to_load"}) <= 1

\* C21 witness: the run was ended by a merge that failed, after a flush that
\* had merged its batch; the files of both batches are closed.
TemporaryFilesReleasedWitness ==
  /\ pc = "aborted"
  /\ error = "database"
  /\ Len(loads) >= 2
  /\ loads[1].ok /\ loads[1].cause # "end"
  /\ ~ loads[Len(loads)].ok
  /\ Len(temp_files) >= 2
  /\ OpenFiles = {}

MergedByFlush(call) == call.cause # "end" /\ call.ok

RECURSIVE HandedOver(_, _, _)
\* The rows of stream s in the files of the first n load_csv calls, or of
\* those among them that flush_records made and load_csv merged, in the
\* order of the calls.
HandedOver(s, n, merged_only) ==
  IF n = 0 THEN <<>>
  ELSE HandedOver(s, n - 1, merged_only)
         \o (IF loads[n].stream = s /\ (merged_only => MergedByFlush(loads[n]))
             THEN loads[n].file ELSE <<>>)

\* The count is the number of rows of the buffer, and the count given to
\* load_csv the number of rows of the file given to it.
CountsAreRows ==
  /\ \A s \in DOMAIN row_count : row_count[s] = Len(csv_files_to_load[s])
  /\ \A n \in 1..Len(loads) : loads[n].count = Len(loads[n].file)

\* C22 as stated: in every state the rows written for a stream are the rows
\* of the batches handed to load_csv followed by the rows of the buffer, each
\* row once.
RecordConservation ==
  /\ CountsAreRows
  /\ \A s \in DOMAIN row_count :
       accepted[s] = HandedOver(s, Len(loads), FALSE) \o csv_files_to_load[s]

\* C22, amended: in every state the rows written for a stream are the rows
\* of the batches that flush_records handed over and load_csv merged,
\* followed by the rows of the buffer, each row once; while lines are read
\* no other batch has been handed over.  A call of the final loop and a
\* call that failed were given the buffer, which keeps its rows and its
\* count; there is at most one such call for a stream.
RecordConservationInLoop ==
  /\ CountsAreRows
  /\ \A s \in DOMAIN row_count :
       /\ accepted[s] = HandedOver(s, Len(loads), TRUE) \o csv_files_to_load[s]
       /\ Cardinality({n \in 1..Len(loads) :
                         loads[n].stream = s /\ ~ MergedByFlush(loads[n])}) <= 1
  /\ \A n \in 1..Len(loads) :
       ~ MergedByFlush(loads[n]) =>
         /\ pc # "reading"
         /\ loads[n].file = csv_files_to_load[loads[n].stream]
         /\ loads[n].count = row_count[loads[n].stream]

\* C22 witness: lines are being read, one batch of two rows was flushed and
\* merged, and a third row is in the buffer.
RecordConservationWitness ==
  /\ pc = "reading"
  /\ \E s \in DOMAIN row_count :
       /\ Len(accepted[s]) = 3
       /\ row_count[s] = 1
       /\ \E n \in 1..Len(loads) : loads[n].stream = s /\ loads[n].count = 2 /\ loads[n].ok

\* A RECORD line of a registered stream is handled in this step.
RecordStep ==
  /\ IsLineStep
  /\ IsType(line', "RECORD")
  /\ "stream" \in DOMAIN line'
  /\ line'.stream \in DOMAIN row_count

\* The step leaves the buffer, the count and the fingerprints of stream t
\* as they were and makes no load_csv call for t.
BufferUntouched(t) ==
  /\ t \in DOMAIN row_count' /\ row_count'[t] = row_count[t]
  /\ csv_files_to_load'[t] = csv_files_to_load[t]
  /\ IF t \in DOMAIN primary_key_exists
     THEN t \in DOMAIN primary_key_exists' /\ primary_key_exists'[t] = primary_key_exists[t]
     ELSE t \notin DOMAIN primary_key_exists'
  /\ \A n \in (Len(loads) + 1)..Len(loads') : loads'[n].stream # t

\* The step leaves the target table of stream t as it was.
TableUntouched(t) ==
  db_tables'[table_name(t)] = db_tables[table_name(t)]

\* A flush for a duplicate in this step is for a fingerprint of the line's
\* own stream.
OwnDuplicateOnly ==
  \A n \in (Len(loads) + 1)..Len(loads') :
    loads'[n].cause = "duplicate" =>
      /\ loads'[n].stream = line'.stream
      /\ line'.stream \in DOMAIN primary_key_exists
      /\ record_primary_key_string(key_properties[line'.stream], line'.record)
           \in primary_key_exists[line'.stream]

\* C23 as stated: a RECORD of stream A, with any flush it triggers, leaves
\* the buffer, the count and the fingerprints of every other registered
\* stream B unchanged, merges no rows of B, does not write to B's target
\* table, and flushes for a duplicate only on a fingerprint of A.
CrossStreamIsolation ==
  [][RecordStep =>
       /\ \A t \in DOMAIN row_count \ {line'.stream} : BufferUntouched(t) /\ TableUntouched(t)
       /\ OwnDuplicateOnly]_vars

\* What holds of C23: the same, with B's target table left alone when the
\* names of A and B differ in more than the case of their letters.
CrossStreamIsolationOfBuffers ==
  [][RecordStep =>
       /\ \A t \in DOMAIN row_count \ {line'.stream} :
            /\ BufferUntouched(t)
            /\ lower(t) # lower(line'.stream) => TableUntouched(t)
       /\ OwnDuplicateOnly]_vars

\* The line read in this step made flush_records merge a batch, and the loop
\* goes on.
FlushStep ==
  /\ IsLineStep
  /\ Len(loads') > Len(loads)
  /\ pc' = "reading"

\* After a flush for a duplicate the buffer holds the row of the line and
\* nothing else, so it was empty when the row was written; after a flush of
\* a full batch it is empty.
FreshAfterFlush ==
  LET s == line'.stream
      fp == record_primary_key_string(key_properties[s], line'.record)
  IN IF loads'[Len(loads')].cause = "duplicate"
     THEN /\ row_count'[s] = 1
          /\ csv_files_to_load'[s] = <<record_to_csv_row(schemas[s].schema, line'.record)>>
          /\ primary_key_exists'[s] = {fp}
     ELSE /\ row_count'[s] = 0
          /\ csv_files_to_load'[s] = <<>>
          /\ primary_key_exists'[s] = {}

\* C24: load_csv is never called with a batch of zero rows, whatever caused
\* the call; and after a flush made in the loop the stream's count is 0 and
\* its fingerprint set empty before the next row is written.
NoEmptyMerge ==
  [][/\ \A n \in 1..Len(loads') : loads'[n].count > 0 /\ Len(loads'[n].file) > 0
     /\ FlushStep => FreshAfterFlush]_vars

\* C24 witness: a batch was flushed for a duplicate, and the buffer holds
\* the one row written after it.
NoEmptyMergeWitness ==
  /\ pc = "reading"
  /\ IsType(line, "RECORD")
  /\ Len(loads) > 0
  /\ loads[Len(loads)].cause = "duplicate"
  /\ loads[Len(loads)].count = 1
  /\ row_count[line.stream] = 1
  /\ Cardinality(primary_key_exists[line.stream]) = 1

====
